---- MODULE Spec2Model ----
(***************************************************************************)
(* Model of inventory.py, the shoe warehouse program: the in-memory        *)
(* shoe_list, the backing file inventory.txt, and the menu operations.     *)
(*                                                                         *)
(* Text is a sequence of one-character strings, so that formatting a       *)
(* record into a line and parsing a line back are computed character by    *)
(* character.  The backing file is the sequence of the pieces of its       *)
(* content between "\n" characters.                                        *)
(*                                                                         *)
(* A cost is a Python float.  The model holds costs that are multiples of  *)
(* 1/CostUnit (dyadic rationals), as the integer number of units: on such  *)
(* values float products, sums, repr() and ":.2f" are exact, and are       *)
(* computed here as Python computes them.                                  *)
(***************************************************************************)
EXTENDS Integers, Sequences, FiniteSets, TLC

VARIABLES
    pc,         \* "start" | "menu" | "exit" | "crashed": where main() is
    shoe_list,  \* the global list of Shoe objects
    file,       \* inventory.txt: [exists, lines]
    out,        \* what the last operation printed / returned
    clean,      \* history: fresh start, and since then every add was saved
    added,      \* history: the records added while clean, in order
    diverged    \* history: "yes" after a failed append, "rewritten" once a
                \* rewrite followed it, "no" otherwise and after a load

vars == <<pc, shoe_list, file, out, clean, added, diverged>>

----------------------------------------------------------------------------
(* Bounds of the model *)

MaxShoes == 2       \* records capture_shoes() lets shoe_list grow to
MaxQty == 2         \* a restock never raises a quantity above this
MaxFileLines == 3   \* data lines of a backing file found at startup
MaxReportShoes == 3 \* records of a store drawn for the reports

CostUnit == 2^7     \* a cost c stands for the float c / 128

----------------------------------------------------------------------------
(* Text *)

Digits == <<"0", "1", "2", "3", "4", "5", "6", "7", "8", "9">>
LowerLetters == <<"a", "b", "c", "d", "e", "f", "g", "h", "i", "j", "k", "l", "m",
                  "n", "o", "p", "q", "r", "s", "t", "u", "v", "w", "x", "y", "z">>
UpperLetters == <<"A", "B", "C", "D", "E", "F", "G", "H", "I", "J", "K", "L", "M",
                  "N", "O", "P", "Q", "R", "S", "T", "U", "V", "W", "X", "Y", "Z">>

IsDigit(c) == \E i \in 1..10 : Digits[i] = c
DigitVal(c) == (CHOOSE i \in 1..10 : Digits[i] = c) - 1
IsSpace(c) == c \in {" ", "\t"}

\* str.upper() / str.lower(), one character
UpperChar(c) ==
    IF \E i \in 1..26 : LowerLetters[i] = c
    THEN UpperLetters[CHOOSE i \in 1..26 : LowerLetters[i] = c]
    ELSE c
LowerChar(c) ==
    IF \E i \in 1..26 : UpperLetters[i] = c
    THEN LowerLetters[CHOOSE i \in 1..26 : UpperLetters[i] = c]
    ELSE c

Upper(s) == [i \in 1..Len(s) |-> UpperChar(s[i])]
Lower(s) == [i \in 1..Len(s) |-> LowerChar(s[i])]

\* str.strip(): whitespace removed at both ends
RECURSIVE LStrip(_)
LStrip(s) == IF s # <<>> /\ IsSpace(Head(s)) THEN LStrip(Tail(s)) ELSE s
RECURSIVE RStrip(_)
RStrip(s) ==
    IF s # <<>> /\ IsSpace(s[Len(s)]) THEN RStrip(SubSeq(s, 1, Len(s) - 1)) ELSE s
Strip(s) == RStrip(LStrip(s))

\* str.split(','): the fields between commas; "" gives one empty field
RECURSIVE SplitFrom(_, _, _)
SplitFrom(s, i, cur) ==
    IF i > Len(s) THEN <<cur>>
    ELSE IF s[i] = "," THEN <<cur>> \o SplitFrom(s, i + 1, <<>>)
    ELSE SplitFrom(s, i + 1, Append(cur, s[i]))
Split(s) == SplitFrom(s, 1, <<>>)

\* ','.join(fields), as the f-strings of lines 33 and 104 build a line
RECURSIVE Join(_)
Join(fields) ==
    IF Len(fields) = 0 THEN <<>>
    ELSE IF Len(fields) = 1 THEN fields[1]
    ELSE fields[1] \o <<",">> \o Join(Tail(fields))

----------------------------------------------------------------------------
(* Numbers and their text *)

RECURSIVE NatOf(_, _)
NatOf(s, acc) == IF s = <<>> THEN acc ELSE NatOf(Tail(s), 10 * acc + DigitVal(Head(s)))

AllDigits(s) == \A i \in 1..Len(s) : IsDigit(s[i])

RECURSIVE Pow10(_)
Pow10(k) == IF k = 0 THEN 1 ELSE 10 * Pow10(k - 1)

\* the sign and the unsigned rest of a stripped numeric literal
SignOf(s) == IF s # <<>> /\ s[1] = "-" THEN -1 ELSE 1
Unsigned(s) == IF s # <<>> /\ s[1] \in {"-", "+"} THEN Tail(s) ELSE s

\* int(text): surrounding whitespace and a sign are accepted, then digits only;
\* anything else raises ValueError (ok = FALSE)
ParseInt(text) ==
    LET u == Unsigned(Strip(text)) IN
    IF u # <<>> /\ AllDigits(u)
    THEN [ok |-> TRUE, val |-> SignOf(Strip(text)) * NatOf(u, 0)]
    ELSE [ok |-> FALSE, val |-> 0]

\* float(text) for plain decimal literals [sign] digits [. digits], in cost
\* units; anything else raises ValueError.  (Exponents, "inf" and "nan" are not
\* among the texts of this model; every decimal literal in it is a multiple of
\* 1/CostUnit, so the division below is exact.)
ParseFloat(text) ==
    LET u == Unsigned(Strip(text))
        dots == {i \in 1..Len(u) : u[i] = "."}
        dot == IF dots = {} THEN Len(u) + 1 ELSE CHOOSE i \in dots : TRUE
        ip == SubSeq(u, 1, dot - 1)
        fp == SubSeq(u, dot + 1, Len(u))
    IN  IF Cardinality(dots) <= 1 /\ AllDigits(ip) /\ AllDigits(fp)
           /\ Len(ip) + Len(fp) > 0
        THEN [ok |-> TRUE,
              val |-> SignOf(Strip(text))
                      * (NatOf(ip, 0) * CostUnit
                         + (NatOf(fp, 0) * CostUnit) \div Pow10(Len(fp)))]
        ELSE [ok |-> FALSE, val |-> 0]

\* str(n) of a natural number
RECURSIVE FormatNat(_)
FormatNat(n) ==
    IF n < 10 THEN <<Digits[n + 1]>>
    ELSE Append(FormatNat(n \div 10), Digits[(n % 10) + 1])

\* str(n) of an int
FormatInt(n) == IF n < 0 THEN <<"-">> \o FormatNat(-n) ELSE FormatNat(n)

\* n as exactly k digits, zero-padded
RECURSIVE PadNat(_, _)
PadNat(n, k) == IF k = 0 THEN <<>> ELSE Append(PadNat(n \div 10, k - 1), Digits[(n % 10) + 1])

RECURSIVE DropZeros(_)
DropZeros(s) ==
    IF Len(s) > 1 /\ s[Len(s)] = "0" THEN DropZeros(SubSeq(s, 1, Len(s) - 1)) ELSE s

\* repr(float), which f"{cost}" writes: the shortest text that reads back as
\* the same float; for c / 128 that is its exact decimal expansion, with at
\* least one fraction digit ("1.0")
FormatFloat(c) ==
    LET a == IF c < 0 THEN -c ELSE c
        frac == DropZeros(PadNat((a % CostUnit) * (Pow10(7) \div CostUnit), 7))
    IN  (IF c < 0 THEN <<"-">> ELSE <<>>) \o FormatNat(a \div CostUnit) \o <<".">> \o frac

\* the number of cents ":.2f" prints for c / 128: correctly rounded, an exact
\* tie going to the even neighbour
Cents(c) ==
    LET a == IF c < 0 THEN -c ELSE c
        q == (a * 100) \div CostUnit
        r == (a * 100) % CostUnit
        up == 2 * r > CostUnit \/ (2 * r = CostUnit /\ q % 2 = 1)
    IN  IF up THEN q + 1 ELSE q

\* f"R{value:.2f}"
Money(c) ==
    <<"R">> \o (IF c < 0 THEN <<"-">> ELSE <<>>)
    \o FormatNat(Cents(c) \div 100) \o <<".">> \o PadNat(Cents(c) % 100, 2)

\* float(x[3][1:]) of a Money text, as a number of cents: the sort key of the
\* country report (two keys compare as their cents do)
MoneyKey(text) ==
    LET u == Unsigned(Tail(text))
        n == Len(u)
    IN  SignOf(Tail(text)) * (NatOf(SubSeq(u, 1, n - 3), 0) * 100 + NatOf(SubSeq(u, n - 1, n), 0))

----------------------------------------------------------------------------
(* Records and lines *)

\* the header line written at lines 50 and 153
Header ==
    <<"c", "o", "u", "n", "t", "r", "y", ",", "c", "o", "d", "e", ",",
      "p", "r", "o", "d", "u", "c", "t", ",", "c", "o", "s", "t", ",",
      "q", "u", "a", "n", "t", "i", "t", "y">>

\* Shoe.__init__ on values that are already a float and an int
Shoe(country, code, product, cost, quantity) ==
    [country |-> country, code |-> code, product |-> product,
     cost |-> cost, quantity |-> quantity]

\* Shoe(data[0], ..., data[4]) on five text fields: float(cost) and
\* int(quantity) may raise ValueError
ShoeFromFields(data) ==
    LET c == ParseFloat(data[4])
        q == ParseInt(data[5])
    IN  [ok |-> c.ok /\ q.ok,
         shoe |-> Shoe(data[1], data[2], data[3], c.val, q.val)]

\* Shoe.__str__
ShoeStr(s) ==
    Join(<<s.country, s.code, s.product, FormatFloat(s.cost), FormatInt(s.quantity)>>)

\* the lines a "for line in file" loop sees: the pieces between "\n", without
\* a last empty piece (an empty file has no line at all)
PyLines(pieces) ==
    IF pieces[Len(pieces)] = <<>> THEN SubSeq(pieces, 1, Len(pieces) - 1) ELSE pieces

NoFile == [exists |-> FALSE, lines |-> <<>>]
FileOf(pieces) == [exists |-> TRUE, lines |-> pieces]

\* LoadLoop with a plausible slip: a line of the wrong field count aborts the
\* load instead of being skipped
RECURSIVE LoadLoopStrict(_, _, _)
LoadLoopStrict(lines, i, acc) ==
    IF i > Len(lines) THEN [ok |-> TRUE, list |-> acc]
    ELSE LET data == Split(Strip(lines[i])) IN
         IF Len(data) = 5 /\ ShoeFromFields(data).ok
         THEN LoadLoopStrict(lines, i + 1, Append(acc, ShoeFromFields(data).shoe))
         ELSE [ok |-> FALSE, list |-> acc]

\* the loop of lines 57-61 from line i on; a ValueError leaves the loop with
\* what was appended so far
RECURSIVE LoadLoop(_, _, _)
LoadLoop(lines, i, acc) ==
    IF i > Len(lines) THEN [ok |-> TRUE, list |-> acc]
    ELSE LET data == Split(Strip(lines[i])) IN
         IF Len(data) = 5
         THEN LET made == ShoeFromFields(data) IN
              IF made.ok THEN LoadLoop(lines, i + 1, Append(acc, made.shoe))
              ELSE [ok |-> FALSE, list |-> acc]
         ELSE LoadLoop(lines, i + 1, acc)

\* read_shoes_data() on file f; io = FALSE: open() raises OSError.
\* Gives the return value, the message printed (with the exception's kind),
\* shoe_list and the file afterwards.
ReadShoesData(f, io) ==
    IF ~io THEN [ret |-> FALSE, msg |-> "error: OSError", list |-> <<>>, file |-> f]
    ELSE IF ~f.exists
    THEN [ret |-> FALSE, msg |-> "created", list |-> <<>>, file |-> FileOf(<<Header>>)]
    ELSE IF PyLines(f.lines) = <<>>
    THEN \* next(file) raises StopIteration
         [ret |-> FALSE, msg |-> "error: StopIteration", list |-> <<>>, file |-> f]
    ELSE LET r == LoadLoop(PyLines(f.lines), 2, <<>>) IN
         [ret |-> r.ok, msg |-> IF r.ok THEN "loaded" ELSE "error: ValueError",
          list |-> r.list, file |-> f]

\* AppendLine with a plausible slip: the "\n" before the line is forgotten
AppendLineNoBreak(f, line) ==
    IF f.exists
    THEN FileOf([f.lines EXCEPT ![Len(f.lines)] = @ \o line])
    ELSE FileOf(<<line>>)

\* the file after open('inventory.txt', 'a') and write("\n" + line)
AppendLine(f, line) ==
    IF f.exists THEN FileOf(Append(f.lines, line)) ELSE FileOf(<<<<>>, line>>)

\* RewriteFile with a plausible slip: the header is not written again
RewriteFileNoHeader(list) == FileOf([i \in 1..Len(list) |-> ShoeStr(list[i])])

\* the file after the rewrite of lines 152-155
RewriteFile(list) == FileOf(<<Header>> \o [i \in 1..Len(list) |-> ShoeStr(list[i])])

----------------------------------------------------------------------------
(* Selections and reports *)

\* min(shoe_list, key=quantity): a scan that keeps the first strictly smaller
RECURSIVE MinScan(_, _, _)
MinScan(list, i, best) ==
    IF i > Len(list) THEN best
    ELSE MinScan(list, i + 1,
                 IF list[i].quantity < list[best].quantity THEN i ELSE best)

\* MinIdx with a plausible slip: "<=" keeps the last minimum
RECURSIVE MinScanLast(_, _, _)
MinScanLast(list, i, best) ==
    IF i > Len(list) THEN best
    ELSE MinScanLast(list, i + 1,
                     IF list[i].quantity <= list[best].quantity THEN i ELSE best)
MinIdxLast(list) == MinScanLast(list, 2, 1)

MinIdx(list) == MinScan(list, 2, 1)

\* max(shoe_list, key=quantity): a scan that keeps the first strictly greater
RECURSIVE MaxScan(_, _, _)
MaxScan(list, i, best) ==
    IF i > Len(list) THEN best
    ELSE MaxScan(list, i + 1,
                 IF list[i].quantity > list[best].quantity THEN i ELSE best)
MaxIdx(list) == MaxScan(list, 2, 1)

\* the linear search of lines 171-179: index of the first match, 0 if none
RECURSIVE FindCode(_, _, _)
FindCode(list, code, i) ==
    IF i > Len(list) THEN 0
    ELSE IF list[i].code = code THEN i
    ELSE FindCode(list, code, i + 1)

\* country_stats after the loop of lines 225-236, as the dict's items in
\* insertion order
RECURSIVE CountryStats(_, _, _)
CountryStats(list, i, stats) ==
    IF i > Len(list) THEN stats
    ELSE LET s == list[i]
             known == \E k \in 1..Len(stats) : stats[k].country = s.country
             st == IF known THEN stats
                   ELSE Append(stats, [country |-> s.country, total_value |-> 0,
                                       total_quantity |-> 0, products |-> 0])
             k == CHOOSE k \in 1..Len(st) : st[k].country = s.country
         IN  CountryStats(list, i + 1,
                 [st EXCEPT ![k] = [country |-> s.country,
                                    total_value |-> @.total_value + s.cost * s.quantity,
                                    total_quantity |-> @.total_quantity + s.quantity,
                                    products |-> @.products + 1]])

\* one table row of lines 242-247
CountryRow(st) == <<st.country, st.products, st.total_quantity, Money(st.total_value)>>

\* the key of line 250
RowKey(row) == MoneyKey(row[4])

\* list.sort(key=..., reverse=True): descending, rows of equal key keep their order
RECURSIVE InsertDesc(_, _)
InsertDesc(sorted, row) ==
    IF sorted = <<>> THEN <<row>>
    ELSE IF RowKey(Head(sorted)) >= RowKey(row)
    THEN <<Head(sorted)>> \o InsertDesc(Tail(sorted), row)
    ELSE <<row>> \o sorted
RECURSIVE SortDesc(_, _)
SortDesc(rows, acc) ==
    IF rows = <<>> THEN acc ELSE SortDesc(Tail(rows), InsertDesc(acc, Head(rows)))

\* the table stock_by_country() prints
CountryTable(list) ==
    LET stats == CountryStats(list, 1, <<>>) IN
    SortDesc([k \in 1..Len(stats) |-> CountryRow(stats[k])], <<>>)

\* the table view_all() prints
ViewTable(list) ==
    [i \in 1..Len(list) |->
        <<list[i].country, list[i].code, list[i].product,
          Money(list[i].cost), list[i].quantity>>]

\* the table value_per_item() prints
ValueTable(list) ==
    [i \in 1..Len(list) |->
        <<list[i].product, list[i].code, Money(list[i].cost * list[i].quantity)>>]

\* sum(shoe.cost * shoe.quantity for shoe in shoe_list)
RECURSIVE TotalValue(_)
TotalValue(list) ==
    IF list = <<>> THEN 0
    ELSE TotalValue(SubSeq(list, 1, Len(list) - 1))
         + list[Len(list)].cost * list[Len(list)].quantity

----------------------------------------------------------------------------
(* What the user types, and the files a run may find *)

CountryInputs == {<<"Z", "A">>, <<" ", "Z", "A">>, <<"Z", ",", "A">>}
CodeInputs == {<<"a", "1">>}
ProductInputs == {<<"M", "a", "x">>}
CostInputs == {<<"1", ".", "5">>, <<"0">>, <<"x">>}
QuantityInputs == {<<"0">>, <<"-", "1">>, <<"x">>}
\* the answer to "Restock? (yes/no)" and the amount typed after it
RestockInputs ==
    { <<<<"Y", "e", "s">>, <<"1">>>>, <<<<"Y", "e", "s">>, <<"2">>>>,
      <<<<"Y", "e", "s">>, <<"0">>>>, <<<<"Y", "e", "s">>, <<"-", "1">>>>,
      <<<<"Y", "e", "s">>, <<"x">>>>, <<<<"n", "o">>, <<"1">>>> }
SearchInputs == {<<"a", "1">>, <<"z", "9">>}
Yes == <<"y", "e", "s">>

\* data lines of a backing file found at startup: written by an earlier run,
\* or edited by hand
FileLineInputs ==
    { <<"Z", "A", ",", "a", "1", ",", "M", "a", "x", ",", "1", ".", "5", ",", "2">>,
      <<"Z", "A", ",", "A", "1">>,
      <<"U", "S", ",", "B", "2", ",", "M", "a", "x", ",", "x", ",", "3">>,
      <<"U", "S", ",", "B", "2", ",", "M", "a", "x", ",", "-", "1", ".", "5", ",", "-", "2">> }

\* the files a run may find: a header and up to MaxFileLines data lines, or
\* an empty file
InitialFiles ==
    {FileOf(<<<<>>>>)}
    \cup {FileOf(<<Header>> \o ls) :
            ls \in UNION {[1..n -> FileLineInputs] : n \in 0..MaxFileLines}}

\* what the last operation printed: the operation, its final message, the
\* index of the record it selected (0: none), the table it printed, its input
Out(op, msg, sel, rows, arg) ==
    [op |-> op, msg |-> msg, sel |-> sel, rows |-> rows, arg |-> arg]

----------------------------------------------------------------------------
(* The program *)

\* a process starts with no inventory.txt: shoe_list = [] (line 36), main()
\* not yet entered
Init ==
    /\ pc = "start"
    /\ shoe_list = <<>>
    /\ file = NoFile
    /\ out = Out("none", "", 0, <<>>, <<>>)
    /\ clean = TRUE
    /\ added = <<>>
    /\ diverged = "no"

\* a process starts and finds an inventory.txt
InitFile ==
    /\ pc = "start"
    /\ shoe_list = <<>>
    /\ file \in InitialFiles
    /\ out = Out("none", "", 0, <<>>, <<>>)
    /\ clean = FALSE
    /\ added = <<>>
    /\ diverged = "no"

\* main(), lines 270-274: read_shoes_data() and the message about it
Load(io) ==
    /\ pc = "start"
    /\ LET r == ReadShoesData(file, io) IN
       /\ shoe_list' = r.list
       /\ file' = r.file
       /\ out' = Out("load", r.msg, 0, <<>>, <<>>)
       /\ clean' = (clean /\ io)
       /\ added' = IF clean /\ io THEN added ELSE <<>>
    /\ diverged' = "no"
    /\ pc' = "menu"

\* choice 1, capture_shoes(): the two validation loops end with the first
\* accepted entry, so costText and qtyText are the accepted ones
CaptureShoes(country, codeText, product, costText, qtyText, io) ==
    /\ pc = "menu"
    /\ Len(shoe_list) < MaxShoes       \* bound of the model
    /\ Len(file.lines) <= MaxShoes     \* bound of the model
    /\ ParseFloat(costText).ok /\ ParseFloat(costText).val > 0
    /\ ParseInt(qtyText).ok /\ ParseInt(qtyText).val >= 0
    /\ LET code == Upper(codeText)
           cost == ParseFloat(costText).val
           quantity == ParseInt(qtyText).val
           shoe == Shoe(country, code, product, cost, quantity)
           line == Join(<<country, code, product, FormatFloat(cost), FormatInt(quantity)>>)
       IN  /\ shoe_list' = Append(shoe_list, shoe)
           /\ file' = IF io THEN AppendLine(file, line) ELSE file
           /\ out' = Out("add", IF io THEN "added" ELSE "save_error",
                         Len(shoe_list) + 1, <<>>, <<>>)
           /\ clean' = (clean /\ io)
           /\ added' = IF clean /\ io THEN Append(added, shoe) ELSE <<>>
           /\ diverged' = IF io THEN diverged ELSE "yes"
    /\ pc' = "menu"

\* choice 2, view_all()
ViewAll ==
    /\ pc = "menu"
    /\ out' = IF shoe_list = <<>> THEN Out("view", "empty", 0, <<>>, <<>>)
              ELSE Out("view", "table", 0, ViewTable(shoe_list), <<>>)
    /\ UNCHANGED <<pc, shoe_list, file, clean, added, diverged>>

\* Restocked with a plausible slip: "=" for "+="
RestockedSet(list, lowest, add) == [list EXCEPT ![lowest].quantity = add]

\* lowest.quantity += add (line 149)
Restocked(list, lowest, add) == [list EXCEPT ![lowest].quantity = @ + add]

\* choice 3, re_stock(): answer and amount are what the user types; io = FALSE:
\* open('inventory.txt', 'w') raises OSError, which "except ValueError" does
\* not catch
ReStock(answer, amount, io) ==
    /\ pc = "menu"
    /\ IF shoe_list = <<>>
       THEN /\ out' = Out("restock", "empty", 0, <<>>, <<answer, amount>>)
            /\ UNCHANGED <<pc, shoe_list, file, clean, added, diverged>>
       ELSE LET lowest == MinIdx(shoe_list)
                add == ParseInt(amount)
            IN  IF Lower(answer) # Yes
                THEN /\ out' = Out("restock", "declined", lowest, <<>>, <<answer, amount>>)
                     /\ UNCHANGED <<pc, shoe_list, file, clean, added, diverged>>
                ELSE IF ~add.ok
                THEN /\ out' = Out("restock", "invalid", lowest, <<>>, <<answer, amount>>)
                     /\ UNCHANGED <<pc, shoe_list, file, clean, added, diverged>>
                ELSE IF add.val > 0
                THEN /\ shoe_list[lowest].quantity + add.val <= MaxQty  \* bound
                     /\ shoe_list' = Restocked(shoe_list, lowest, add.val)
                     /\ file' = IF io THEN RewriteFile(shoe_list') ELSE file
                     /\ pc' = IF io THEN "menu" ELSE "crashed"
                     /\ out' = Out("restock", IF io THEN "restocked" ELSE "traceback",
                                   lowest, <<>>, <<answer, amount>>)
                     /\ clean' = FALSE
                     /\ added' = <<>>
                     /\ diverged' = IF io /\ diverged = "yes" THEN "rewritten"
                                    ELSE diverged
                ELSE /\ out' = Out("restock", "not_positive", lowest, <<>>, <<answer, amount>>)
                     /\ UNCHANGED <<pc, shoe_list, file, clean, added, diverged>>

\* choice 4, search_shoe()
SearchShoe(codeText) ==
    /\ pc = "menu"
    /\ out' = IF shoe_list = <<>> THEN Out("search", "empty", 0, <<>>, codeText)
              ELSE LET i == FindCode(shoe_list, Upper(codeText), 1) IN
                   Out("search", IF i = 0 THEN "not_found" ELSE "found", i, <<>>, codeText)
    /\ UNCHANGED <<pc, shoe_list, file, clean, added, diverged>>

\* choice 5, value_per_item()
ValuePerItem ==
    /\ pc = "menu"
    /\ out' = IF shoe_list = <<>> THEN Out("values", "empty", 0, <<>>, <<>>)
              ELSE Out("values", "table", 0, ValueTable(shoe_list), <<>>)
    /\ UNCHANGED <<pc, shoe_list, file, clean, added, diverged>>

\* choice 6, highest_qty()
HighestQty ==
    /\ pc = "menu"
    /\ out' = IF shoe_list = <<>> THEN Out("highest", "empty", 0, <<>>, <<>>)
              ELSE Out("highest", "for_sale", MaxIdx(shoe_list), <<>>, <<>>)
    /\ UNCHANGED <<pc, shoe_list, file, clean, added, diverged>>

\* choice 7, stock_by_country()
StockByCountry ==
    /\ pc = "menu"
    /\ out' = IF shoe_list = <<>> THEN Out("countries", "empty", 0, <<>>, <<>>)
              ELSE Out("countries", "table", 0, CountryTable(shoe_list), <<>>)
    /\ UNCHANGED <<pc, shoe_list, file, clean, added, diverged>>

\* choice 8, total_warehouse_value()
TotalWarehouseValue ==
    /\ pc = "menu"
    /\ out' = IF shoe_list = <<>> THEN Out("total", "empty", 0, <<>>, <<>>)
              ELSE Out("total", "value", 0, <<>>, Money(TotalValue(shoe_list)))
    /\ UNCHANGED <<pc, shoe_list, file, clean, added, diverged>>

\* choice 9: the loop breaks and the program ends
Exit ==
    /\ pc = "menu"
    /\ pc' = "exit"
    /\ out' = Out("exit", "farewell", 0, <<>>, <<>>)
    /\ UNCHANGED <<shoe_list, file, clean, added, diverged>>

\* any other choice
InvalidChoice ==
    /\ pc = "menu"
    /\ out' = Out("choice", "invalid", 0, <<>>, <<>>)
    /\ UNCHANGED <<pc, shoe_list, file, clean, added, diverged>>

\* the program is started again: a new process, the same inventory.txt
Restart ==
    /\ pc \in {"exit", "crashed"}
    /\ pc' = "start"
    /\ shoe_list' = <<>>
    /\ out' = Out("none", "", 0, <<>>, <<>>)
    /\ UNCHANGED <<file, clean, added, diverged>>

AddStep ==
    \E country \in CountryInputs, codeText \in CodeInputs, product \in ProductInputs,
       costText \in CostInputs, qtyText \in QuantityInputs, io \in BOOLEAN :
        CaptureShoes(country, codeText, product, costText, qtyText, io)

ReStockStep ==
    \E typed \in RestockInputs, io \in BOOLEAN : ReStock(typed[1], typed[2], io)

Next ==
    \/ \E io \in BOOLEAN : Load(io)
    \/ AddStep
    \/ ViewAll
    \/ ReStockStep
    \/ \E codeText \in SearchInputs : SearchShoe(codeText)
    \/ ValuePerItem
    \/ HighestQty
    \/ StockByCountry
    \/ TotalWarehouseValue
    \/ Exit
    \/ InvalidChoice
    \/ Restart

\* the whole program, started with no inventory.txt
Spec == Init /\ [][Next]_vars

\* the operations that touch shoe_list or the file (the reports change only
\* what is printed), started with no inventory.txt
NextStore ==
    \/ \E io \in BOOLEAN : Load(io)
    \/ AddStep
    \/ ReStockStep
    \/ Exit
    \/ Restart

SpecStore == Init /\ [][NextStore]_vars

\* a run over an inventory.txt found at startup
NextFile ==
    \/ \E io \in BOOLEAN : Load(io)
    \/ ViewAll
    \/ ReStockStep
    \/ \E codeText \in SearchInputs : SearchShoe(codeText)
    \/ ValuePerItem
    \/ HighestQty
    \/ StockByCountry
    \/ TotalWarehouseValue
    \/ Exit
    \/ InvalidChoice
    \/ Restart

SpecFile == InitFile /\ [][NextFile]_vars

----------------------------------------------------------------------------
(* The selections and the reports on stores drawn from a bounded set *)

ReportCountries == {<<"Z", "A">>, <<"z", "a">>, <<"U", "S">>}
ReportCosts == {1, 2}
ReportQuantities == {2, 3}

ReportShoes ==
    {Shoe(country, <<"A", "1">>, <<"M", "a", "x">>, cost, quantity) :
        country \in ReportCountries, cost \in ReportCosts,
        quantity \in ReportQuantities}

\* the menu loop after loading a file that holds the drawn store
InitReports ==
    /\ pc = "menu"
    /\ shoe_list \in UNION {[1..n -> ReportShoes] : n \in 0..MaxReportShoes}
    /\ file = RewriteFile(shoe_list)
    /\ out = Out("load", "loaded", 0, <<>>, <<>>)
    /\ clean = FALSE
    /\ added = <<>>
    /\ diverged = "no"

NextReports ==
    \/ ReStockStep
    \/ HighestQty
    \/ StockByCountry

SpecReports == InitReports /\ [][NextReports]_vars

----------------------------------------------------------------------------
(* Properties *)

HasComma(text) == \E i \in 1..Len(text) : text[i] = ","

\* a record whose line reads back as the same record: no comma in a text
\* field, no whitespace at the start of the line
PlainRecord(r) ==
    /\ ~HasComma(r.country) /\ ~HasComma(r.code) /\ ~HasComma(r.product)
    /\ (r.country = <<>> \/ ~IsSpace(r.country[1]))

AllPlain(list) == \A i \in 1..Len(list) : PlainRecord(list[i])

C2_RestockFrame ==
    [][(out'.op = "restock" /\ shoe_list # <<>>) =>
        LET answer == out'.arg[1]
            amount == ParseInt(out'.arg[2])
            sel == out'.sel
        IN  IF Lower(answer) = Yes /\ amount.ok /\ amount.val > 0
            THEN /\ sel \in 1..Len(shoe_list)
                 /\ Len(shoe_list') = Len(shoe_list)
                 /\ shoe_list'[sel].quantity = shoe_list[sel].quantity + amount.val
                 /\ \A i \in 1..Len(shoe_list) :
                        /\ i # sel => shoe_list'[i] = shoe_list[i]
                        /\ shoe_list'[i].country = shoe_list[i].country
                        /\ shoe_list'[i].code = shoe_list[i].code
                        /\ shoe_list'[i].product = shoe_list[i].product
                        /\ shoe_list'[i].cost = shoe_list[i].cost
            ELSE shoe_list' = shoe_list /\ file' = file]_vars

\* C2, reached: a restock by 2 in a store of two records
C2_Witness ==
    /\ out.op = "restock" /\ out.msg = "restocked" /\ out.arg[2] = <<"2">>
    /\ Len(shoe_list) = 2 /\ shoe_list[out.sel].quantity = 2

\* the lowest index among the records of least / greatest quantity
FirstMin(list) ==
    CHOOSE i \in 1..Len(list) :
        /\ \A j \in 1..Len(list) : list[i].quantity <= list[j].quantity
        /\ \A j \in 1..(i - 1) : list[j].quantity # list[i].quantity
FirstMax(list) ==
    CHOOSE i \in 1..Len(list) :
        /\ \A j \in 1..Len(list) : list[i].quantity >= list[j].quantity
        /\ \A j \in 1..(i - 1) : list[j].quantity # list[i].quantity

\* C3: on a non-empty store, restock selects the first record of minimum
\* quantity and highest-quantity the first record of maximum quantity.
C3_FirstOccurrence ==
    [][/\ (out'.op = "restock" /\ shoe_list # <<>>) => out'.sel = FirstMin(shoe_list)
       /\ (out'.op = "highest" /\ shoe_list # <<>>) => out'.sel = FirstMax(shoe_list)]_vars

\* C3, reached: two records share the maximum quantity, and the first of them
\* was shown
C3_Witness ==
    /\ out.op = "highest" /\ Len(shoe_list) = 3
    /\ shoe_list[1].quantity < shoe_list[2].quantity
    /\ shoe_list[3].quantity = shoe_list[2].quantity
    /\ out.sel = 2

\* sums over the records of one country
RECURSIVE CountryQuantity(_, _)
CountryQuantity(list, country) ==
    IF list = <<>> THEN 0
    ELSE (IF Head(list).country = country THEN Head(list).quantity ELSE 0)
         + CountryQuantity(Tail(list), country)
RECURSIVE CountryValue(_, _)
CountryValue(list, country) ==
    IF list = <<>> THEN 0
    ELSE (IF Head(list).country = country THEN Head(list).cost * Head(list).quantity ELSE 0)
         + CountryValue(Tail(list), country)
CountryCount(list, country) ==
    Cardinality({i \in 1..Len(list) : list[i].country = country})
FirstOf(list, country) ==
    CHOOSE i \in 1..Len(list) :
        list[i].country = country /\ \A j \in 1..(i - 1) : list[j].country # country

\* C4: the country report has one row per distinct country with its number of
\* records, its total quantity and its total value; rows are in descending
\* order of total value, rows of equal total value in order of first
\* appearance in the store.
C4_CountryReport ==
    (out.op = "countries" /\ shoe_list # <<>>) =>
        LET rows == out.rows
            countries == {shoe_list[i].country : i \in 1..Len(shoe_list)}
        IN  /\ Len(rows) = Cardinality(countries)
            /\ {rows[k][1] : k \in 1..Len(rows)} = countries
            /\ \A k \in 1..Len(rows) :
                  /\ rows[k][2] = CountryCount(shoe_list, rows[k][1])
                  /\ rows[k][3] = CountryQuantity(shoe_list, rows[k][1])
                  /\ rows[k][4] = Money(CountryValue(shoe_list, rows[k][1]))
            /\ \A k \in 1..Len(rows), m \in 1..Len(rows) :
                  k < m =>
                    LET vk == CountryValue(shoe_list, rows[k][1])
                        vm == CountryValue(shoe_list, rows[m][1])
                    IN  \/ vk > vm
                        \/ /\ vk = vm
                           /\ FirstOf(shoe_list, rows[k][1]) < FirstOf(shoe_list, rows[m][1])

\* C5: when the load fails on a non-numeric cost or quantity, the run starts
\* with an empty store.
C5_FailedLoadIsEmpty ==
    (out.op = "load" /\ out.msg = "error: ValueError") => shoe_list = <<>>

\* C6: no error after the load ends the program: an I/O failure in add or in
\* restock is reported and the shell awaits the next choice; the program ends
\* only on choice 9.
C6_EndsOnlyOnExit ==
    /\ pc \in {"start", "menu", "exit"}
    /\ pc = "exit" => out.op = "exit"
    /\ (out.op \in {"add", "restock"}) => pc = "menu"

\* the file a successful rewrite leaves: the header, then one line per record
\* in store order with its current cost and quantity
FileShowsStore ==
    /\ file.exists
    /\ Len(file.lines) = Len(shoe_list) + 1
    /\ file.lines[1] = Header
    /\ \A i \in 1..Len(shoe_list) :
          file.lines[i + 1] =
              Join(<<shoe_list[i].country, shoe_list[i].code, shoe_list[i].product,
                     FormatFloat(shoe_list[i].cost), FormatInt(shoe_list[i].quantity)>>)

ReloadGivesStore ==
    LET r == ReadShoesData(file, TRUE) IN r.ret /\ r.list = shoe_list

\* C7, as stated: after a successful restock the file is the header and one
\* line per record in store order, and a load of it gives the store.
C7_RewriteReloads ==
    (out.op = "restock" /\ out.msg = "restocked") => (FileShowsStore /\ ReloadGivesStore)

\* C7, amended: after a successful restock the file is the header and one line
\* per record in store order; a load of it gives the store when no text field
\* holds a comma and no country starts with whitespace.
C7_RewriteReloadsPlain ==
    (out.op = "restock" /\ out.msg = "restocked") =>
        (FileShowsStore /\ (AllPlain(shoe_list) => ReloadGivesStore))

\* C7, reached: a rewrite that followed a failed append, on a store of plain
\* records
C7_Witness ==
    /\ out.op = "restock" /\ out.msg = "restocked" /\ diverged = "rewritten"
    /\ Len(shoe_list) = 2 /\ AllPlain(shoe_list)
    /\ FileShowsStore /\ ReloadGivesStore

\* the first record whose code equals the text ignoring letter case, 0 if none
FirstCodeIgnoringCase(list, text) ==
    LET hits == {i \in 1..Len(list) : Upper(list[i].code) = Upper(text)} IN
    IF hits = {} THEN 0 ELSE CHOOSE i \in hits : \A j \in hits : i <= j

\* C8: on a non-empty store, search shows the first record whose code equals
\* the input ignoring letter case, and reports not-found only when there is
\* none.
C8_SearchIgnoresCase ==
    (out.op = "search" /\ shoe_list # <<>>) =>
        /\ out.sel = FirstCodeIgnoringCase(shoe_list, out.arg)
        /\ (out.msg = "not_found") = (FirstCodeIgnoringCase(shoe_list, out.arg) = 0)

FiveFields(line) == Len(Split(Strip(line))) = 5
NumericLine(line) ==
    LET data == Split(Strip(line)) IN ParseFloat(data[4]).ok /\ ParseInt(data[5]).ok
RecordOfLine(line) ==
    LET data == Split(Strip(line)) IN
    Shoe(data[1], data[2], data[3], ParseFloat(data[4]).val, ParseInt(data[5]).val)

\* the data lines of the file the last load read
DataLines == Tail(PyLines(file.lines))

\* C9: a load skips the lines that do not have exactly five fields: when the
\* file opens and every five-field line is numeric, the load succeeds and the
\* store is the five-field lines, in file order.
C9_WrongCountSkipped ==
    (/\ out.op = "load" /\ out.msg \notin {"created", "error: OSError", "error: StopIteration"}
     /\ \A i \in 1..Len(DataLines) : FiveFields(DataLines[i]) => NumericLine(DataLines[i]))
    => LET kept == SelectSeq(DataLines, FiveFields) IN
       /\ out.msg = "loaded"
       /\ shoe_list = [i \in 1..Len(kept) |-> RecordOfLine(kept[i])]

\* C9, reached: a wrong-count line between two different five-field lines
C9_Witness ==
    /\ out.op = "load" /\ out.msg = "loaded"
    /\ Len(DataLines) = 3 /\ Len(shoe_list) = 2
    /\ FiveFields(DataLines[1]) /\ ~FiveFields(DataLines[2]) /\ FiveFields(DataLines[3])
    /\ DataLines[1] # DataLines[3]

\* C10: every record of the store has cost > 0 and quantity >= 0.
C10_PositiveCost ==
    \A i \in 1..Len(shoe_list) : shoe_list[i].cost > 0 /\ shoe_list[i].quantity >= 0

====
